---- MODULE Spec2Model ----
(***************************************************************************)
(* Model of jvmvj (src/src/main.rs): selection of an installed Java        *)
(* runtime from a version specifier given on the command line or found in  *)
(* a .java-version / .tool-versions file of the working directory or one   *)
(* of its ancestors.                                                       *)
(*                                                                         *)
(* Rust strings are TLA+ strings; TLC evaluates Len, SubSeq and \o on      *)
(* them, so every string function below works character by character, as  *)
(* the library function it models does.                                    *)
(***************************************************************************)
EXTENDS Integers, Sequences, FiniteSets, TLC

VARIABLES
    pc,             \* position of the process / of the function under study
    args,           \* env::args(): program name, then the arguments
    jvms,           \* the registry parsed from /usr/libexec/java_home -X
    java_home,      \* env::var("JAVA_HOME").ok()
    fs,             \* directories from the root (index 1) to the start directory
    dir,            \* directory find_version_string_from_file is looking at
    quiet,          \* the quiet flag computed by main
    spec,           \* Option<String>: the specifier handed to switch_to
    stdout,         \* lines written to standard output
    stderr,         \* lines written to the diagnostic stream
    status,         \* exit status of the process, -1 while it runs
    fin,            \* argument of the function under study
    fout            \* its result

vars == <<pc, args, jvms, java_home, fs, dir, quiet, spec, stdout, stderr,
          status, fin, fout>>

(***************************************************************************)
(* Bounds of the model.                                                    *)
(***************************************************************************)
MaxVerLen == 6      \* longest enumerated registry version string
MaxSpecLen == 5     \* longest enumerated specifier
MaxLines == 3       \* most lines in an enumerated .tool-versions file
MaxDepth == 4       \* deepest start directory (number of path levels)
MaxJvms == 3        \* most entries in the registry

(***************************************************************************)
(* Option<T> and the characters of the Rust standard library.              *)
(***************************************************************************)
None == [tag |-> "None"]
Some(v) == [tag |-> "Some", val |-> v]

U16Max == 65535

Char(s, i) == SubSeq(s, i, i)

Letters ==
    {"a","b","c","d","e","f","g","h","i","j","k","l","m","n","o","p","q","r",
     "s","t","u","v","w","x","y","z","A","B","C","D","E","F","G","H","I","J",
     "K","L","M","N","O","P","Q","R","S","T","U","V","W","X","Y","Z"}

is_alphabetic(c) == c \in Letters

is_whitespace(c) == c \in {" ", "\n", "\t", "\r"}

DigitVal(c) ==
    CASE c = "0" -> 0 [] c = "1" -> 1 [] c = "2" -> 2 [] c = "3" -> 3
      [] c = "4" -> 4 [] c = "5" -> 5 [] c = "6" -> 6 [] c = "7" -> 7
      [] c = "8" -> 8 [] c = "9" -> 9 [] OTHER -> -1

\* str::find: index of the first occurrence of pat in s at or after i, else 0
RECURSIVE find_from(_, _, _)
find_from(s, pat, i) ==
    IF i + Len(pat) - 1 > Len(s) THEN 0
    ELSE IF SubSeq(s, i, i + Len(pat) - 1) = pat THEN i
    ELSE find_from(s, pat, i + 1)

contains(s, pat) == find_from(s, pat, 1) # 0

starts_with(s, pat) ==
    Len(pat) <= Len(s) /\ SubSeq(s, 1, Len(pat)) = pat

\* str::split_once on a one-character delimiter
split_once(s, c) ==
    LET i == find_from(s, c, 1)
    IN  IF i = 0 THEN None
        ELSE Some(<<SubSeq(s, 1, i - 1), SubSeq(s, i + 1, Len(s))>>)

\* parse_digits with wrapping arithmetic in place of the checked one
RECURSIVE parse_digits_wrapping(_, _, _)
parse_digits_wrapping(s, i, acc) ==
    IF i > Len(s) THEN Some(acc)
    ELSE LET d == DigitVal(Char(s, i))
         IN  IF d < 0 THEN None
             ELSE parse_digits_wrapping(s, i + 1, (acc * 10 + d) % (U16Max + 1))

\* the digits of u16::from_str, accumulated with checked_mul / checked_add
RECURSIVE parse_digits(_, _, _)
parse_digits(s, i, acc) ==
    IF i > Len(s) THEN Some(acc)
    ELSE LET d == DigitVal(Char(s, i))
         IN  IF d < 0 THEN None
             ELSE IF acc * 10 + d > U16Max THEN None
             ELSE parse_digits(s, i + 1, acc * 10 + d)

\* str::parse::<u16>().ok(): an optional '+', then one or more decimal digits
parse_u16(s) ==
    IF s = "" THEN None
    ELSE IF s = "+" \/ s = "-" THEN None
    ELSE IF Char(s, 1) = "+" THEN parse_digits(s, 2, 0)
    ELSE parse_digits(s, 1, 0)

\* str::trim
RECURSIVE trim_start_idx(_, _)
trim_start_idx(s, i) ==
    IF i <= Len(s) /\ is_whitespace(Char(s, i)) THEN trim_start_idx(s, i + 1)
    ELSE i

RECURSIVE trim_end_idx(_, _)
trim_end_idx(s, j) ==
    IF j >= 1 /\ is_whitespace(Char(s, j)) THEN trim_end_idx(s, j - 1)
    ELSE j

trim(s) == SubSeq(s, trim_start_idx(s, 1), trim_end_idx(s, Len(s)))

\* str::replace: every non-overlapping occurrence, left to right
RECURSIVE replace(_, _, _)
replace(s, from, to) ==
    LET i == find_from(s, from, 1)
    IN  IF i = 0 THEN s
        ELSE SubSeq(s, 1, i - 1) \o to
             \o replace(SubSeq(s, i + Len(from), Len(s)), from, to)

\* str::lines: split at "\n", a final empty piece is not a line and a
\* trailing "\r" is not part of the line
strip_cr(l) ==
    IF Len(l) > 0 /\ Char(l, Len(l)) = "\r" THEN SubSeq(l, 1, Len(l) - 1)
    ELSE l

RECURSIVE lines(_)
lines(s) ==
    IF s = "" THEN <<>>
    ELSE LET i == find_from(s, "\n", 1)
         IN  IF i = 0 THEN <<strip_cr(s)>>
             ELSE <<strip_cr(SubSeq(s, 1, i - 1))>>
                  \o lines(SubSeq(s, i + 1, Len(s)))

\* all strings of at most n characters of the alphabet
RECURSIVE Strs(_, _)
Strs(alphabet, n) ==
    IF n = 0 THEN {""}
    ELSE LET shorter == Strs(alphabet, n - 1)
         IN  {""} \cup {s \o c : s \in shorter, c \in alphabet}

(***************************************************************************)
(* exit_with_err: what the process writes and the status it exits with.    *)
(***************************************************************************)
Exit(kind, err, code) ==
    [tag |-> "Exit", kind |-> kind, err |-> err, code |-> code]

\* exit_with_err that reports whatever the flag
exit_with_err_loud(kind, msg, q) == Exit(kind, <<msg>>, 1)

\* exit_with_err that is silent whatever the flag
exit_with_err_silent(kind, msg, q) == Exit(kind, <<>>, 0)

exit_with_err(kind, msg, q) ==
    IF q THEN Exit(kind, <<>>, 0) ELSE Exit(kind, <<msg>>, 1)

Ok(v) == [tag |-> "Ok", val |-> v]

(***************************************************************************)
(* Jvm::major_version                                                      *)
(***************************************************************************)
Jvm(version, bundle_id, home_path, name) ==
    [version |-> version, bundle_id |-> bundle_id, home_path |-> home_path,
     name |-> name]

major_version(jvm) ==
    LET first == split_once(jvm.version, ".")
    IN  IF first = None
        THEN exit_with_err("MalformedVersion",
                 "Version number " \o jvm.version \o " of jvm "
                 \o jvm.home_path \o " should contain at least one period!",
                 FALSE)
        ELSE
        LET head == first.val[1]
            rest == first.val[2]
            second == split_once(rest, ".")
        IN  IF head = "1" /\ second = None
            THEN exit_with_err("MalformedVersion",
                     "Version number " \o jvm.version \o " of jvm "
                     \o jvm.home_path
                     \o " should contain at least two periods when 1-prefixed!",
                     FALSE)
            ELSE
            LET token == IF head = "1" THEN second.val[1] ELSE head
                n == parse_u16(token)
            IN  IF n = None
                THEN exit_with_err("MalformedVersion",
                         "Major version number " \o token \o " of JVM "
                         \o jvm.home_path \o " should be numeric!", FALSE)
                ELSE Ok(n.val)

(***************************************************************************)
(* The specifier parser: get_distro and get_version_from_input.            *)
(***************************************************************************)
V(number, distro) == [number |-> number, distro |-> distro]

\* chars().take_while(|c| c.is_alphabetic()): length of the leading run
RECURSIVE alphabetic_run(_, _)
alphabetic_run(s, i) ==
    IF i <= Len(s) /\ is_alphabetic(Char(s, i)) THEN alphabetic_run(s, i + 1)
    ELSE i - 1

get_distro(s) ==
    LET dspec == SubSeq(s, 1, alphabetic_run(s, 1))
    IN  IF dspec = "" THEN None ELSE Some(dspec)

\* chars().skip_while(|c| c.is_alphabetic() || *c == '-'): first index kept
RECURSIVE skip_prefix(_, _)
skip_prefix(s, i) ==
    IF i <= Len(s) /\ (is_alphabetic(Char(s, i)) \/ Char(s, i) = "-")
    THEN skip_prefix(s, i + 1)
    ELSE i

remainder(s) == SubSeq(s, skip_prefix(s, 1), Len(s))

\* get_version_from_input without the arm for the legacy "1." form
get_version_from_input_no_legacy(s) ==
    LET distro == get_distro(s)
        parts == split_once(remainder(s), ".")
        number == IF parts # None
                  THEN parse_u16(parts.val[1])
                  ELSE parse_u16(s)
    IN  IF number = None THEN None ELSE Some(V(number.val, distro))

get_version_from_input(s) ==
    LET distro == get_distro(s)
        parts == split_once(remainder(s), ".")
        number == IF parts # None /\ parts.val[1] = "1"
                  THEN parse_u16(parts.val[2])
                  ELSE IF parts # None
                  THEN parse_u16(parts.val[1])
                  ELSE parse_u16(s)
    IN  IF number = None THEN None ELSE Some(V(number.val, distro))

(***************************************************************************)
(* distro_matches and switch_to.                                           *)
(***************************************************************************)
\* distro_matches that looks at the bundle identifier only
distro_matches_bundle_only(v, jvm) ==
    IF v.distro = None THEN TRUE
    ELSE contains(jvm.bundle_id, v.distro.val)

distro_matches(v, jvm) ==
    IF v.distro = None THEN TRUE
    ELSE contains(jvm.bundle_id, v.distro.val)
         \/ contains(jvm.home_path, v.distro.val)

\* jvms.iter().find(|jvm| jvm.major_version() == v.number && distro_matches):
\* Ok(Some(i)) for the entry found, Ok(None) when the registry is exhausted,
\* or the exit major_version takes on an entry the search reaches
RECURSIVE find_jvm(_, _, _)
find_jvm(v, registry, i) ==
    IF i > Len(registry) THEN Ok(None)
    ELSE LET mv == major_version(registry[i])
         IN  IF mv.tag = "Exit" THEN mv
             ELSE IF mv.val = v.number /\ distro_matches(v, registry[i])
             THEN Ok(Some(i))
             ELSE find_jvm(v, registry, i + 1)

\* {:?} of V
debug_V(v) ==
    "V { number: " \o ToString(v.number) \o ", distro: "
    \o (IF v.distro = None THEN "None"
        ELSE "Some(" \o ToString(v.distro.val) \o ")") \o " }"

\* a panic! on the main thread: the message goes to the diagnostic stream and
\* the process exits with status 101
Panic(kind, msg) ==
    [tag |-> "Exit", kind |-> kind,
     err |-> <<"thread 'main' panicked: " \o msg>>, code |-> 101]

\* the announcement test without the comparison of the paths
announces_unless_set(q, old_java_home, home_path) ==
    ~q \/ old_java_home = None

\* the announcement test of switch_to
announces(q, old_java_home, home_path) ==
    ~q \/ (old_java_home = None \/ old_java_home # Some(home_path))

\* switch_to: what it writes and, when it ends the process, the exit it
\* takes; tag "Return" when it returns to main
switch_to(s, registry, q, old_java_home) ==
    LET parsed == get_version_from_input(s)
    IN  IF parsed # None
        THEN LET v == parsed.val
                 found == find_jvm(v, registry, 1)
             IN  IF found.tag = "Exit"
                 THEN found @@ [out |-> <<>>]
                 ELSE IF found.val = None
                 THEN Panic("NoMatchingRuntime",
                          "You requested a JVM of version " \o debug_V(v)
                          \o ", but no such JVM is installed!")
                      @@ [out |-> <<>>]
                 ELSE LET selection == registry[found.val.val]
                      IN  [tag |-> "Return", kind |-> "Selected",
                           out |-> <<selection.home_path>>,
                           err |-> IF announces(q, old_java_home,
                                                selection.home_path)
                                   THEN <<"Activating Java " \o selection.name>>
                                   ELSE <<>>,
                           code |-> 0]
        ELSE IF ~q
        THEN Panic("UnparseableSpecifier",
                   "Did not understand version spec " \o s)
             @@ [out |-> <<>>]
        ELSE Exit("UnparseableSpecifier", <<>>, 0) @@ [out |-> <<>>]

(***************************************************************************)
(* The cascading locator.                                                  *)
(***************************************************************************)
\* a directory: the content of its .java-version and .tool-versions files,
\* None for a file that is not there (for .tool-versions also one that
\* cannot be read: fs::read_to_string(path).ok()?)
Dir(java_version, tool_versions) ==
    [java_version |-> java_version, tool_versions |-> tool_versions]

RECURSIVE first_java_line(_, _)
first_java_line(ls, i) ==
    IF i > Len(ls) THEN None
    ELSE IF starts_with(trim(ls[i]), "java") THEN Some(trim(ls[i]))
    ELSE first_java_line(ls, i + 1)

find_version_string_from_tool_versions(file) ==
    IF file = None THEN None
    ELSE LET java_line == first_java_line(lines(file.val), 1)
         IN  IF java_line = None THEN None
             ELSE Some(replace(java_line.val, "java ", ""))

\* a parent that stops below the filesystem root
parent_below_root(d) == IF d > 2 THEN Some(d - 1) ELSE None

\* Path::parent of the directory at level d; level 1 is the filesystem root
parent(d) == IF d > 1 THEN Some(d - 1) ELSE None

(***************************************************************************)
(* The inputs of a run: registry, command line, environment and files.     *)
(***************************************************************************)
Temurin17 == Jvm("17.0.9", "net.adoptium.17.jdk", "/jvm/temurin-17/Home",
                 "OpenJDK 17.0.9")
Zulu17 == Jvm("17.0.8", "com.azul.zulu.17", "/jvm/z17/Home", "Zulu 17.0.8")
Legacy8 == Jvm("1.8.0_392", "net.temurin.8.jdk", "/jvm/jdk8/Home",
               "OpenJDK 8")
Upper17 == Jvm("17.0.1", "com.Zulu.17", "/jvm/Temurin17/Home", "JDK 17.0.1")
NoPeriod == Jvm("17", "net.temurin.17", "/jvm/broken/Home", "Broken 17")

Runtimes == {Temurin17, Zulu17, Legacy8, Upper17, NoPeriod}

RECURSIVE SeqsUpTo(_, _)
SeqsUpTo(S, n) ==
    IF n = 0 THEN {<<>>}
    ELSE LET shorter == SeqsUpTo(S, n - 1)
         IN  {<<>>} \cup {Append(q, x) : q \in shorter, x \in S}

Registries == SeqsUpTo(Runtimes, MaxJvms)

CliSpecs == {"17", "1.8", "zulu-17.0", "temurin17.0", "Zulu-17.0", "21", "x"}

Args ==
    {<<"jvmvj">>, <<"jvmvj", "init">>, <<"jvmvj", "auto">>,
     <<"jvmvj", "auto", "-q">>, <<"jvmvj", "auto", "--quiet">>,
     <<"jvmvj", "17", "--quiet">>, <<"jvmvj", "21", "-q">>,
     <<"jvmvj", "x", "-q">>}
    \cup {<<"jvmvj", s>> : s \in CliSpecs}

JavaHomes == {None, Some(Temurin17.home_path), Some("/jvm/z17/Home/")}

NoFiles == Dir(None, None)

\* directory trees of a run, root first, start directory last
Trees ==
    {<<NoFiles, NoFiles>>,
     <<NoFiles, Dir(Some("  17  \n"), None), NoFiles>>,
     <<NoFiles, Dir(None, Some("ruby 3.2\njava 21\n"))>>,
     <<Dir(Some("lts\n"), None), NoFiles>>,
     <<Dir(None, Some("java zulu-17.0\n")), Dir(None, Some("ruby 3.2\n"))>>,
     <<Dir(Some("1.8"), Some("java 17\n"))>>}

(***************************************************************************)
(* The process: main, find_version_string_from_file, switch_to.            *)
(***************************************************************************)
Init ==
    /\ pc = "main"
    /\ args \in Args
    /\ jvms \in Registries
    /\ java_home \in JavaHomes
    /\ fs \in Trees
    /\ dir = 0
    /\ quiet = FALSE
    /\ spec = None
    /\ stdout = <<>>
    /\ stderr = <<>>
    /\ status = -1
    /\ fin = None
    /\ fout = None

\* args.iter().any(|arg| arg == "-q" || arg == "--quiet")
quiet_flag(a) == \E i \in 1..Len(a) : a[i] = "-q" \/ a[i] = "--quiet"

\* main: the dispatch on the first argument
Main ==
    /\ pc = "main"
    /\ IF Len(args) < 2
       THEN \* list_all: one println! of the rendered table
            /\ stdout' = Append(stdout, "table")
            /\ status' = 0
            /\ pc' = "done"
            /\ UNCHANGED <<dir, quiet, spec>>
       ELSE IF args[2] = "init"
       THEN \* display_zsh_init: one println! of the shell functions
            /\ stdout' = Append(stdout, "zsh-init")
            /\ status' = 0
            /\ pc' = "done"
            /\ UNCHANGED <<dir, quiet, spec>>
       ELSE IF args[2] = "auto"
       THEN /\ quiet' = quiet_flag(args)
            /\ dir' = Len(fs)
            /\ pc' = "find"
            /\ UNCHANGED <<spec, stdout, status>>
       ELSE /\ spec' = Some(args[2])
            /\ quiet' = FALSE
            /\ pc' = "switch"
            /\ UNCHANGED <<dir, stdout, status>>
    /\ UNCHANGED <<args, jvms, java_home, fs, stderr, fin, fout>>

\* find_version_string_from_file on directory d: the specifier it returns,
\* the parent it recurses into, or the exit it takes
find_version_string_from_file(d, q) ==
    LET tool == find_version_string_from_tool_versions(fs[d].tool_versions)
    IN  IF fs[d].java_version # None
        THEN [tag |-> "Return", val |-> trim(fs[d].java_version.val)]
        ELSE IF tool # None
        THEN [tag |-> "Return", val |-> tool.val]
        ELSE IF parent(d) # None
        THEN [tag |-> "Recurse", val |-> parent(d).val]
        ELSE exit_with_err("NoConfigFound",
                 "No .java_version file found in this directory or any parent!",
                 q)

\* one call of find_version_string_from_file, on the directory dir
FindVersionStringFromFile ==
    /\ pc = "find"
    /\ LET r == find_version_string_from_file(dir, quiet)
       IN  /\ pc' = CASE r.tag = "Return" -> "switch"
                      [] r.tag = "Recurse" -> "find"
                      [] r.tag = "Exit" -> "done"
           /\ spec' = IF r.tag = "Return" THEN Some(r.val) ELSE spec
           /\ dir' = IF r.tag = "Recurse" THEN r.val ELSE dir
           /\ stderr' = IF r.tag = "Exit" THEN stderr \o r.err ELSE stderr
           /\ status' = IF r.tag = "Exit" THEN r.code ELSE status
    /\ UNCHANGED <<args, jvms, java_home, fs, quiet, stdout, fin, fout>>

\* switch_to, and the return from main after it
SwitchTo ==
    /\ pc = "switch"
    /\ LET r == switch_to(spec.val, jvms, quiet, java_home)
       IN  /\ stdout' = stdout \o r.out
           /\ stderr' = stderr \o r.err
           /\ status' = r.code
    /\ pc' = "done"
    /\ UNCHANGED <<args, jvms, java_home, fs, dir, quiet, spec, fin, fout>>

Next == Main \/ FindVersionStringFromFile \/ SwitchTo

Spec == Init /\ [][Next]_vars

(***************************************************************************)
(* The functions on their own: each specification below draws an argument  *)
(* from a bounded set and applies one function to it.                      *)
(***************************************************************************)
Idle ==
    /\ args = <<"jvmvj">>
    /\ jvms = <<>>
    /\ java_home = None
    /\ fs = <<NoFiles>>
    /\ dir = 0
    /\ quiet = FALSE
    /\ spec = None
    /\ stdout = <<>>
    /\ stderr = <<>>
    /\ status = -1

Call(name, result) ==
    /\ pc = name
    /\ fout' = result
    /\ pc' = "returned"
    /\ UNCHANGED <<args, jvms, java_home, fs, dir, quiet, spec, stdout,
                   stderr, status, fin>>

\* Jvm::major_version on the version strings of a small alphabet
VersionStrings ==
    Strs({"1", "7", ".", "x", "+"}, MaxVerLen)
    \cup {"17.0.9", "21.0.1", "1.8.0_392", "017.0", "65535.0", "65536.0",
          "1.65535.0", "1.65536.0"}

InitMajorVersion ==
    /\ pc = "major_version"
    /\ fin \in {Jvm(s, "bundle", "/home", "name") : s \in VersionStrings}
    /\ fout = None
    /\ Idle

CallMajorVersion == Call("major_version", major_version(fin))

NextMajorVersion == CallMajorVersion

SpecMajorVersion == InitMajorVersion /\ [][NextMajorVersion]_vars

\* get_version_from_input on the specifiers of a small alphabet
Specifiers ==
    Strs({"1", "7", ".", "-", "a", "+"}, MaxSpecLen)
    \cup {"17", "1.8", "11.0.2", "temurin-17", "temurin-17.0.1", "zulu17",
          "zulu--1.8", "a-71717", "65535", "65536", "65536.0"}

InitParse ==
    /\ pc = "get_version_from_input"
    /\ fin \in Specifiers
    /\ fout = None
    /\ Idle

CallGetVersionFromInput ==
    Call("get_version_from_input", get_version_from_input(fin))

NextParse == CallGetVersionFromInput

SpecParse == InitParse /\ [][NextParse]_vars

\* find_version_string_from_tool_versions on files of a few lines
ToolLines ==
    {"java 21", "javascript 18", "ruby 3.2", "  java temurin-17  ", "java",
     "", "java java 8"}

RECURSIVE ToolContents(_)
ToolContents(n) ==
    IF n = 0 THEN {""}
    ELSE LET shorter == ToolContents(n - 1)
         IN  {""} \cup {l \o "\n" \o c : l \in ToolLines, c \in shorter}

ToolFiles == {None} \cup {Some(c) : c \in ToolContents(MaxLines)}

InitToolVersions ==
    /\ pc = "find_version_string_from_tool_versions"
    /\ fin \in ToolFiles
    /\ fout = None
    /\ Idle

CallFindVersionStringFromToolVersions ==
    Call("find_version_string_from_tool_versions",
         find_version_string_from_tool_versions(fin))

NextToolVersions == CallFindVersionStringFromToolVersions

SpecToolVersions == InitToolVersions /\ [][NextToolVersions]_vars

\* find_version_string_from_file from the start directory of every tree of
\* at most MaxDepth levels
LocateDirs ==
    {Dir(j, t) : j \in {None, Some("  17  \n"), Some("")},
                 t \in {None, Some("ruby 3.2\njava 21\n"),
                        Some("ruby 3.2\n")}}

LocateTrees == SeqsUpTo(LocateDirs, MaxDepth) \ {<<>>}

InitLocate ==
    /\ pc = "find"
    /\ quiet \in BOOLEAN
    /\ args = IF quiet THEN <<"jvmvj", "auto", "-q">> ELSE <<"jvmvj", "auto">>
    /\ fs \in LocateTrees
    /\ dir = Len(fs)
    /\ jvms = <<>>
    /\ java_home = None
    /\ spec = None
    /\ stdout = <<>>
    /\ stderr = <<>>
    /\ status = -1
    /\ fin = None
    /\ fout = None

NextLocate == FindVersionStringFromFile

SpecLocate == InitLocate /\ [][NextLocate]_vars

(***************************************************************************)
(* Vocabulary of the properties, stated on the texts themselves and not    *)
(* through the functions above.                                            *)
(***************************************************************************)
Min(S) == CHOOSE x \in S : \A y \in S : x <= y

Max(S) == CHOOSE x \in S : \A y \in S : x >= y

Positions(s, c) == {i \in 1..Len(s) : Char(s, i) = c}

IsSubstring(p, s) ==
    \E i \in 1..(Len(s) - Len(p) + 1) : SubSeq(s, i, i + Len(p) - 1) = p

IsNumeral(t) == t # "" /\ \A i \in 1..Len(t) : DigitVal(Char(t, i)) >= 0

RECURSIVE NumVal(_)
NumVal(t) ==
    IF t = "" THEN 0
    ELSE NumVal(SubSeq(t, 1, Len(t) - 1)) * 10 + DigitVal(Char(t, Len(t)))

\* a decimal numeral, optionally after one '+', of value at most 65535
Unsigned(t) == IF t # "" /\ Char(t, 1) = "+" THEN SubSeq(t, 2, Len(t)) ELSE t

IsU16Text(t) == IsNumeral(Unsigned(t)) /\ NumVal(Unsigned(t)) <= U16Max

IsMalformedVersion(r) == r.tag = "Exit" /\ r.code = 1 /\ Len(r.err) = 1

(***************************************************************************)
(* C8: Jvm::major_version                                                  *)
(***************************************************************************)
\* the text the major version is read from, None if the periods are missing
VersionToken(s) ==
    LET P == Positions(s, ".")
    IN  IF P = {} THEN None
        ELSE LET p1 == Min(P)
                 later == {i \in P : i > p1}
             IN  IF SubSeq(s, 1, p1 - 1) # "1" THEN Some(SubSeq(s, 1, p1 - 1))
                 ELSE IF later = {} THEN None
                 ELSE Some(SubSeq(s, p1 + 1, Min(later) - 1))

\* C8 as stated: no period fails, "1." without a second period fails, the
\* token is otherwise the text between the first two periods after "1" and
\* the text before the first period in every other string; every non-negative
\* integer written there is the result and a non-numeric token fails.
C8_AsStated ==
    pc = "returned" =>
        LET t == VersionToken(fin.version)
        IN  IF t = None THEN IsMalformedVersion(fout)
            ELSE IF IsNumeral(t.val) THEN fout = Ok(NumVal(t.val))
            ELSE IsMalformedVersion(fout)

\* C8 amended: as C8, with the integer limited to 0..65535 (optionally written
\* after one '+'); every other token, a larger number included, fails with
\* MalformedVersion.
C8_MajorVersion ==
    pc = "returned" =>
        LET t == VersionToken(fin.version)
        IN  IF t = None THEN IsMalformedVersion(fout)
            ELSE IF IsU16Text(t.val) THEN fout = Ok(NumVal(Unsigned(t.val)))
            ELSE IsMalformedVersion(fout)

C8_Witness ==
    /\ pc = "returned"
    /\ VersionToken(fin.version) # None
    /\ IsNumeral(VersionToken(fin.version).val)
    /\ NumVal(VersionToken(fin.version).val) > U16Max
    /\ IsMalformedVersion(fout)

(***************************************************************************)
(* C9 and C3: get_version_from_input                                       *)
(***************************************************************************)
NoLeadingAlphabetic(s) == s = "" \/ ~is_alphabetic(Char(s, 1))

\* the version text of a specifier without distro
VersionText(s) ==
    LET P == Positions(s, ".")
    IN  IF P = {} THEN s
        ELSE IF SubSeq(s, 1, Min(P) - 1) = "1"
        THEN SubSeq(s, Min(P) + 1, Len(s))
        ELSE SubSeq(s, 1, Min(P) - 1)

\* C9 as stated: a specifier with no leading alphabetic run gives a query
\* without distro whose version is the bare integer, the text after the first
\* period of "1.<minor>", or the integer before the first period; no query
\* when that text is not a non-negative integer.
C9_AsStated ==
    pc = "returned" /\ NoLeadingAlphabetic(fin) =>
        IF IsNumeral(VersionText(fin))
        THEN fout = Some(V(NumVal(VersionText(fin)), None))
        ELSE fout = None

\* C9 amended: for a specifier that starts with neither an alphabetic
\* character nor '-', the same, where the version text counts as an integer
\* exactly when it is a decimal numeral of value at most 65535, optionally
\* after one '+'.
C9_ParseNoDistro ==
    pc = "returned" /\ NoLeadingAlphabetic(fin) /\ ~starts_with(fin, "-") =>
        IF IsU16Text(VersionText(fin))
        THEN fout = Some(V(NumVal(Unsigned(VersionText(fin))), None))
        ELSE fout = None

C9_Witness ==
    /\ pc = "returned"
    /\ fin = "1.7"
    /\ fout = Some(V(7, None))

\* length of the leading run of the characters of a class, from index i
LeadingRun(s, i, InClass(_)) ==
    Min({n \in 0..(Len(s) - i + 1) :
            n = Len(s) - i + 1 \/ ~InClass(Char(s, i + n))})

IsDash(c) == c = "-"

DistroRun(s) == LeadingRun(s, 1, is_alphabetic)

StrippedRemainder(s) ==
    LET k == DistroRun(s)
        d == LeadingRun(s, k + 1, IsDash)
    IN  SubSeq(s, k + d + 1, Len(s))

\* C3: a specifier made of a non-empty alphabetic run, optional '-'
\* characters and an integer remainder without period parses to the query of
\* that distro and that integer.
C3_AsStated ==
    pc = "returned" /\ DistroRun(fin) > 0
    /\ IsNumeral(StrippedRemainder(fin))
    /\ NumVal(StrippedRemainder(fin)) <= U16Max
    => fout = Some(V(NumVal(StrippedRemainder(fin)),
                     Some(SubSeq(fin, 1, DistroRun(fin)))))

(***************************************************************************)
(* C4: find_version_string_from_tool_versions                              *)
(***************************************************************************)
ToolToken(l) ==
    IF Positions(l, " ") = {} THEN l
    ELSE SubSeq(l, 1, Min(Positions(l, " ")) - 1)

\* C4: the specifier is the first trimmed line whose tool token is exactly
\* "java", without its leading "java "; no such line, no specifier.
C4_AsStated ==
    pc = "returned" /\ fin # None =>
        LET ls == lines(fin.val)
            J == {i \in 1..Len(ls) : ToolToken(trim(ls[i])) = "java"}
        IN  IF J = {} THEN fout = None
            ELSE LET l == trim(ls[Min(J)])
                 IN  fout = Some(IF starts_with(l, "java ")
                                 THEN SubSeq(l, 6, Len(l)) ELSE l)

(***************************************************************************)
(* C6: find_version_string_from_file                                       *)
(***************************************************************************)
\* the declaration of the directory at level d, None if it has none
Declaration(d) ==
    IF fs[d].java_version # None THEN Some(trim(fs[d].java_version.val))
    ELSE find_version_string_from_tool_versions(fs[d].tool_versions)

Declaring == {d \in 1..Len(fs) : Declaration(d) # None}

LocateResult ==
    pc # "find" =>
        IF Declaring = {}
        THEN /\ pc = "done"
             /\ spec = None
             /\ status = IF quiet THEN 0 ELSE 1
        ELSE /\ pc = "switch"
             /\ dir = Max(Declaring)
             /\ spec = Declaration(Max(Declaring))
             /\ status = -1

\* a call in progress looks at a directory of the path, for which the
\* function has a result
WalkProgress ==
    pc = "find" =>
        /\ dir \in 1..Len(fs)
        /\ find_version_string_from_file(dir, quiet).tag
               \in {"Return", "Recurse", "Exit"}

OnAuto == Len(args) >= 2 /\ args[2] = "auto"

QuietFlag == \E i \in 1..Len(args) : args[i] \in {"-q", "--quiet"}

Query == get_version_from_input(spec.val)

\* the specifier reached switch_to and parsed to a query
Resolving == pc = "done" /\ spec # None /\ Query # None

WellFormed(i) == VersionToken(jvms[i].version) # None
                 /\ IsU16Text(VersionToken(jvms[i].version).val)

NormalizedMajor(i) == NumVal(Unsigned(VersionToken(jvms[i].version).val))

Qualifying ==
    {i \in 1..Len(jvms) :
        /\ WellFormed(i)
        /\ NormalizedMajor(i) = Query.val.number
        /\ \/ Query.val.distro = None
           \/ IsSubstring(Query.val.distro.val, jvms[i].bundle_id)
           \/ IsSubstring(Query.val.distro.val, jvms[i].home_path)}

\* entries the search looks at: up to the first qualifying one
Searched ==
    IF Qualifying = {} THEN 1..Len(jvms) ELSE 1..Min(Qualifying)

NoMatchingRuntime ==
    Resolving /\ Qualifying = {} /\ \A i \in 1..Len(jvms) : WellFormed(i)

Selected == Resolving /\ Qualifying # {} /\ \A i \in Searched : WellFormed(i)

\* C1: over a registry of well-formed entries the entry of lowest index with
\* the query's major version and a bundle identifier or install path that
\* contains the query's distro (any entry without distro) is selected; no
\* such entry, NoMatchingRuntime and no path.
C1_Resolver ==
    Resolving /\ (\A i \in 1..Len(jvms) : WellFormed(i)) =>
        IF Qualifying = {}
        THEN /\ stdout = <<>>
             /\ status = 101
             /\ Len(stderr) = 1
        ELSE /\ stdout = <<jvms[Min(Qualifying)].home_path>>
             /\ status = 0

C1_Witness ==
    /\ Resolving
    /\ \A i \in 1..Len(jvms) : WellFormed(i)
    /\ Query.val.distro # None
    /\ Qualifying # {}
    /\ Min(Qualifying) > 1
    /\ NormalizedMajor(1) = Query.val.number
    /\ ~IsSubstring(Query.val.distro.val, jvms[Min(Qualifying)].bundle_id)
    /\ stdout = <<jvms[Min(Qualifying)].home_path>>

\* C2: on the auto path with the quiet flag, NoMatchingRuntime ends the
\* process with a success status and nothing on either stream.
C2_AsStated ==
    OnAuto /\ QuietFlag /\ NoMatchingRuntime =>
        status = 0 /\ stdout = <<>> /\ stderr = <<>>

\* C5: after a successful resolution the selected path is on standard output
\* and the announcement is on the diagnostic stream unless the quiet flag is
\* set and the previous JAVA_HOME exists and equals the selected path.
C5_Announcement ==
    Selected =>
        LET selection == jvms[Min(Qualifying)]
            suppressed == /\ quiet
                          /\ java_home # None
                          /\ java_home.val = selection.home_path
        IN  /\ stdout = <<selection.home_path>>
            /\ stderr = IF suppressed THEN <<>>
                        ELSE <<"Activating Java " \o selection.name>>
            /\ status = 0

C5_Witness ==
    /\ Selected
    /\ OnAuto
    /\ quiet
    /\ java_home = Some(jvms[Min(Qualifying)].home_path)
    /\ stdout = <<jvms[Min(Qualifying)].home_path>>
    /\ stderr = <<>>

NoConfigFound ==
    pc = "done" /\ OnAuto /\ \A d \in 1..Len(fs) : Declaration(d) = None

UnparseableSpecifier == pc = "done" /\ OnAuto /\ spec # None /\ Query = None

\* C7: on the auto path NoConfigFound and UnparseableSpecifier end the
\* process with status 0 and no output when the quiet flag is set, with a
\* non-zero status and a diagnostic message when it is not; standard output
\* stays empty in both modes.
C7_QuietFailures ==
    NoConfigFound \/ UnparseableSpecifier =>
        /\ stdout = <<>>
        /\ IF QuietFlag THEN status = 0 /\ stderr = <<>>
           ELSE status > 0 /\ Len(stderr) = 1

C7_Witness ==
    /\ NoConfigFound
    /\ QuietFlag
    /\ Len(fs) > 1
    /\ status = 0
    /\ stderr = <<>>

\* the search reaches an entry whose version string does not normalize
MalformedVersion == Resolving /\ \E i \in Searched : ~WellFormed(i)

\* C10: a registry entry whose version fails to normalize during resolution
\* ends the process with a non-zero status and a diagnostic message, on the
\* auto path and on the explicit path, with or without the quiet flag.
C10_MalformedVersionFatal ==
    MalformedVersion =>
        /\ status > 0
        /\ Len(stderr) = 1
        /\ stdout = <<>>

C10_Witness ==
    /\ MalformedVersion
    /\ OnAuto
    /\ quiet
    /\ Len(jvms) > 1
    /\ WellFormed(1)
    /\ status = 1

====
